---- MODULE Spec2Model ----
(***************************************************************************)
(* A model of ccxxv, a crossword solving assistant (src/ccxxv/__init__.py).*)
(* Strings are sequences of one-character strings.  The word list is the   *)
(* flat text the Solver holds; a query compiles its pattern to a regular   *)
(* expression and scans that text with re.findall.                         *)
(***************************************************************************)
EXTENDS Integers, Sequences, FiniteSets, TLC

(***************************************************************************)
(* Bounds of the model.                                                    *)
(***************************************************************************)
\* longest word list text of the single-word specification, in characters
MaxText == 3
\* longest pattern, in characters
MaxPat == 2
\* most entries of a word list of the crossing specifications
MaxEntries == 2

(***************************************************************************)
(* Characters.                                                             *)
(***************************************************************************)
NL == "\n"
BSLASH == "\\"

Letters == {"a", "A", "b", "B"}
Digits == {"1"}

\* str.lower() on one character
Lower(c) == CASE c = "A" -> "a" [] c = "B" -> "b" [] OTHER -> c

\* str.upper() on one character
Upper(c) == CASE c = "a" -> "A" [] c = "b" -> "B" [] OTHER -> c

\* the characters of the class \w of the re module
WordChars == Letters \cup Digits \cup {"_"}

\* a '.' left as the regular expression's own dot: anything but a newline
IsWordCharAnyButNewline(c) == c # NL

\* the class \w against one character
IsWordChar(c) == c \in WordChars

\* all strings over S of length 0..n
StringsUpTo(S, n) == UNION {[1..k -> S] : k \in 0..n}

LowerStr(s) == [i \in 1..Len(s) |-> Lower(s[i])]
UpperStr(s) == [i \in 1..Len(s) |-> Upper(s[i])]

(***************************************************************************)
(* str.replace(old, new) for a one-character old.                          *)
(***************************************************************************)
RECURSIVE Replace(_, _, _)
Replace(s, old, new) ==
    IF s = <<>> THEN <<>>
    ELSE (IF Head(s) = old THEN new ELSE <<Head(s)>>) \o Replace(Tail(s), old, new)

\* str.find(ch): the 0-based offset of the first ch, or -1
RECURSIVE FindFrom(_, _, _)
FindFrom(s, ch, i) ==
    IF i > Len(s) THEN -1
    ELSE IF s[i] = ch THEN i - 1
    ELSE FindFrom(s, ch, i + 1)

Find(s, ch) == FindFrom(s, ch, 1)

\* ''.join(a set of characters): the characters in some order
RECURSIVE JoinChars(_)
JoinChars(S) ==
    IF S = {} THEN <<>>
    ELSE LET c == CHOOSE x \in S : TRUE IN <<c>> \o JoinChars(S \ {c})

(***************************************************************************)
(* The regular expression engine, as far as the patterns built here use    *)
(* it: a literal, the class \w, and a bracketed set [...].                 *)
(***************************************************************************)
Lit(c) == [kind |-> "lit", ch |-> c, set |-> {}]
WordClass == [kind |-> "word", ch |-> "", set |-> {}]
SetClass(S) == [kind |-> "set", ch |-> "", set |-> S]

\* the offset of the first "]" at or after i (0 when there is none)
RECURSIVE CloseAt(_, _)
CloseAt(src, i) ==
    IF i > Len(src) THEN 0
    ELSE IF src[i] = "]" THEN i
    ELSE CloseAt(src, i + 1)

\* re's parse of the pattern text into one token per matched character
RECURSIVE Compile(_)
Compile(src) ==
    IF src = <<>> THEN <<>>
    ELSE IF Head(src) = BSLASH /\ Len(src) >= 2 /\ src[2] = "w"
        THEN <<WordClass>> \o Compile(SubSeq(src, 3, Len(src)))
    ELSE IF Head(src) = "[" /\ CloseAt(src, 2) > 0
        THEN LET j == CloseAt(src, 2)
             IN <<SetClass({src[k] : k \in 2..(j - 1)})>>
                    \o Compile(SubSeq(src, j + 1, Len(src)))
    ELSE <<Lit(Head(src))>> \o Compile(Tail(src))

\* the match without re.IGNORECASE
TokenMatchesCaseSensitive(tok, c) ==
    CASE tok.kind = "lit" -> tok.ch = c
      [] tok.kind = "word" -> IsWordChar(c)
      [] OTHER -> c \in tok.set

\* one token against one character, under re.IGNORECASE
TokenMatches(tok, c) ==
    CASE tok.kind = "lit" -> Lower(tok.ch) = Lower(c)
      [] tok.kind = "word" -> IsWordChar(c)
      [] OTHER -> \E s \in tok.set : Lower(s) = Lower(c)

\* the start anchor without its lookbehind: ^ alone
AtLineStartNoLookbehind(text, i) == i = 1

\* (?:(?<=\n)|^) before offset i (1-based, the first character matched)
AtLineStart(text, i) == (i > 1 /\ text[i - 1] = NL) \/ i = 1

\* the pattern without its end anchor
AtLineEndNoAnchor(text, j) == TRUE

\* (?:(?=\n)|$) at offset j (1-based, the first character after the match)
AtLineEnd(text, j) ==
    \/ (j <= Len(text) /\ text[j] = NL)
    \/ j = Len(text) + 1
    \/ (j = Len(text) /\ text[j] = NL)

\* the tokens match the text from offset i on
BodyMatchesAt(toks, text, i) ==
    /\ i + Len(toks) - 1 <= Len(text)
    /\ \A k \in 1..Len(toks) : TokenMatches(toks[k], text[i + k - 1])

MatchesAt(toks, text, i) ==
    /\ AtLineStart(text, i)
    /\ BodyMatchesAt(toks, text, i)
    /\ AtLineEnd(text, i + Len(toks))

\* re.findall: the non-overlapping matches, scanning left to right
RECURSIVE FindAllFrom(_, _, _)
FindAllFrom(toks, text, i) ==
    IF i > Len(text) + 1 THEN <<>>
    ELSE IF MatchesAt(toks, text, i)
        THEN <<SubSeq(text, i, i + Len(toks) - 1)>>
                \o FindAllFrom(toks, text, IF Len(toks) = 0 THEN i + 1 ELSE i + Len(toks))
    ELSE FindAllFrom(toks, text, i + 1)

FindAll(toks, text) == FindAllFrom(toks, text, 1)

(***************************************************************************)
(* Solver.solve_single_word                                                *)
(***************************************************************************)
SolveSingleWord(text, pattern) ==
    FindAll(Compile(Replace(pattern, ".", <<BSLASH, "w">>)), text)

(***************************************************************************)
(* The helpers of Solver.solve_word_pair                                   *)
(***************************************************************************)
FindCrossingPoints(pattern0, pattern1) == <<Find(pattern0, "+"), Find(pattern1, "+")>>

\* the check made on the first pattern only
CrossingMissingFirstOnly(crosses) == crosses[1] = -1

\* the check "-1 in crosses" that raises ValueError
CrossingMissing(crosses) == \E k \in 1..Len(crosses) : crosses[k] = -1

\* the characters as the words spell them, not lowercased
CharsAtNoLower(position, words) == {words[i][position + 1] : i \in 1..Len(words)}

\* positions are 0-based offsets
CharsAt(position, words) == {Lower(words[i][position + 1]) : i \in 1..Len(words)}

\* [word for word in words if word[position].lower() == char]
WordsWith(char, position, words) ==
    LET Keep(word) == Lower(word[position + 1]) = char
    IN SelectSeq(words, Keep)

\* every candidate letter kept as a key, its lists empty or not
MakeLetterGroupsKeepAll(candidate_chars, position0, words0, position1, words1) ==
    [char \in candidate_chars |-> <<WordsWith(char, position0, words0),
                                    WordsWith(char, position1, words1)>>]

MakeLetterGroups(candidate_chars, position0, words0, position1, words1) ==
    LET group(char) == <<WordsWith(char, position0, words0),
                         WordsWith(char, position1, words1)>>
        keys == {char \in candidate_chars :
                    group(char)[1] # <<>> /\ group(char)[2] # <<>>}
    IN [char \in keys |-> group(char)]

\* pattern0.replace('+', r'\w')
Pattern0Source(pattern0) == Replace(pattern0, "+", <<BSLASH, "w">>)

\* the candidate characters put in place of the '+' without the brackets
Pattern1SourceNoBrackets(pattern1, candidate_chars) ==
    Replace(pattern1, "+", JoinChars(candidate_chars))

\* pattern1.replace('+', '[%s]' % ''.join(candidate_chars))
Pattern1Source(pattern1, candidate_chars) ==
    Replace(pattern1, "+", <<"[">> \o JoinChars(candidate_chars) \o <<"]">>)

EmptyMapping == [char \in {} |-> <<>>]

(***************************************************************************)
(* Solver.solve_word_pair as one function of the word list and its two     *)
(* arguments (the statements the stepwise actions below take one by one).  *)
(***************************************************************************)
SolveWordPair(text, pattern0, pattern1) ==
    LET crosses == FindCrossingPoints(pattern0, pattern1)
        words0 == SolveSingleWord(text, Pattern0Source(pattern0))
        candidate_chars == CharsAt(crosses[1], words0)
        words1 == SolveSingleWord(text, Pattern1Source(pattern1, candidate_chars))
    IN IF CrossingMissing(crosses) THEN [raised |-> TRUE, groups |-> EmptyMapping]
       ELSE IF candidate_chars # {}
           THEN [raised |-> FALSE,
                 groups |-> MakeLetterGroups(candidate_chars, crosses[1], words0,
                                             crosses[2], words1)]
       ELSE [raised |-> FALSE, groups |-> EmptyMapping]

(***************************************************************************)
(* Inputs.                                                                 *)
(***************************************************************************)
\* '\n'.join(entries)
RECURSIVE JoinLines(_)
JoinLines(entries) ==
    IF entries = <<>> THEN <<>>
    ELSE IF Len(entries) = 1 THEN Head(entries)
    ELSE Head(entries) \o <<NL>> \o JoinLines(Tail(entries))

\* characters of a word list text, and the texts of the single-word specification
TextChars == {"a", "A", "b", "_", "-", " ", NL}
Texts == StringsUpTo(TextChars, MaxText) \ {<<>>}

\* characters of a single-word pattern
SinglePatChars == {"a", "A", "b", ".", "-", " "}
SinglePatterns == StringsUpTo(SinglePatChars, MaxPat)

\* entries and word lists of the crossing specifications
Lexicon == {<<"a">>, <<"b">>, <<"B">>, <<"a", "b">>, <<"B", "a">>, <<"_", "a">>}
Corpora == {JoinLines(es) : es \in StringsUpTo(Lexicon, MaxEntries) \ {<<>>}}

\* characters of a crossing pattern
PairPatChars == {"a", ".", "+"}
PairPatterns == StringsUpTo(PairPatChars, MaxPat)
PlainPatterns == {p \in PairPatterns : \A i \in 1..Len(p) : p[i] # "+"}

\* the queries of the two concurrent callers
ConcPatterns == {<<"+">>, <<"a", "+">>, <<".">>}

(***************************************************************************)
(* State: the Solver's word list, and for each caller the frame of the     *)
(* query it is running.                                                    *)
(***************************************************************************)
VARIABLES wordlist, frame

vars == <<wordlist, frame>>

Threads == {"t0", "t1"}

IdleFrame ==
    [pc |-> "idle", op |-> "none", pattern0 |-> <<>>, pattern1 |-> <<>>,
     crosses |-> <<0, 0>>, words0 |-> <<>>, candidate_chars |-> {},
     words1 |-> <<>>, groups |-> EmptyMapping, result |-> <<>>,
     raised |-> FALSE, trace |-> <<>>]

\* Solver.__init__ with a non-empty wordlist argument
InitWith(texts) ==
    /\ wordlist \in texts
    /\ frame = [t \in Threads |-> IdleFrame]

Init == InitWith(Corpora)
InitSingle == InitWith(Texts)
InitConc == InitWith(Corpora)

\* a call of solve_single_word: one re.findall over the word list
CallSolveSingleWord(t, patterns) ==
    /\ frame[t].pc = "idle"
    /\ \E pattern \in patterns :
        frame' = [frame EXCEPT ![t] =
            [IdleFrame EXCEPT !.pc = "done", !.op = "single", !.pattern0 = pattern,
                              !.result = SolveSingleWord(wordlist, pattern)]]
    /\ UNCHANGED wordlist

\* a call of solve_word_pair binds its two arguments
CallSolveWordPair(t, patterns) ==
    /\ frame[t].pc = "idle"
    /\ \E pattern0 \in patterns, pattern1 \in patterns :
        frame' = [frame EXCEPT ![t] =
            [IdleFrame EXCEPT !.pc = "find", !.op = "pair",
                              !.pattern0 = pattern0, !.pattern1 = pattern1]]
    /\ UNCHANGED wordlist

\* crosses = _find_crossing_points(pattern0, pattern1), which may raise
StepFindCrossingPoints(t) ==
    /\ frame[t].pc = "find"
    /\ LET crosses == FindCrossingPoints(frame[t].pattern0, frame[t].pattern1)
       IN frame' = [frame EXCEPT
            ![t].crosses = crosses,
            ![t].trace = Append(@, "find"),
            ![t].raised = CrossingMissing(crosses),
            ![t].pc = IF CrossingMissing(crosses) THEN "done" ELSE "scan0"]
    /\ UNCHANGED wordlist

\* a first scan that uses the word list up
StepScan0Consuming(t) ==
    /\ frame[t].pc = "scan0"
    /\ frame' = [frame EXCEPT
            ![t].words0 = SolveSingleWord(wordlist, Pattern0Source(frame[t].pattern0)),
            ![t].trace = Append(@, "scan0"),
            ![t].pc = "chars"]
    /\ wordlist' = <<NL>>

\* words0 = self.solve_single_word(pattern0.replace('+', r'\w'))
StepScan0(t) ==
    /\ frame[t].pc = "scan0"
    /\ frame' = [frame EXCEPT
            ![t].words0 = SolveSingleWord(wordlist, Pattern0Source(frame[t].pattern0)),
            ![t].trace = Append(@, "scan0"),
            ![t].pc = "chars"]
    /\ UNCHANGED wordlist

\* the second scan made whether or not the first found a word
StepCharsAtNoShortCircuit(t) ==
    /\ frame[t].pc = "chars"
    /\ frame' = [frame EXCEPT
            ![t].candidate_chars = CharsAt(frame[t].crosses[1], frame[t].words0),
            ![t].pc = "scan1"]
    /\ UNCHANGED wordlist

\* candidate_chars = _chars_at(crosses[0], words0); if candidate_chars: ... return {}
StepCharsAt(t) ==
    /\ frame[t].pc = "chars"
    /\ LET candidate_chars == CharsAt(frame[t].crosses[1], frame[t].words0)
       IN frame' = [frame EXCEPT
            ![t].candidate_chars = candidate_chars,
            ![t].groups = EmptyMapping,
            ![t].pc = IF candidate_chars # {} THEN "scan1" ELSE "done"]
    /\ UNCHANGED wordlist

\* words1 = self.solve_single_word(pattern1.replace('+', '[%s]' % ...))
StepScan1(t) ==
    /\ frame[t].pc = "scan1"
    /\ frame' = [frame EXCEPT
            ![t].words1 = SolveSingleWord(wordlist,
                              Pattern1Source(frame[t].pattern1, frame[t].candidate_chars)),
            ![t].trace = Append(@, "scan1"),
            ![t].pc = "groups"]
    /\ UNCHANGED wordlist

\* return _make_letter_groups(candidate_chars, crosses[0], words0, crosses[1], words1)
StepMakeLetterGroups(t) ==
    /\ frame[t].pc = "groups"
    /\ frame' = [frame EXCEPT
            ![t].groups = MakeLetterGroups(frame[t].candidate_chars,
                              frame[t].crosses[1], frame[t].words0,
                              frame[t].crosses[2], frame[t].words1),
            ![t].pc = "done"]
    /\ UNCHANGED wordlist

\* the caller takes the result (or the exception) and the frame is gone
Return(t) ==
    /\ frame[t].pc = "done"
    /\ frame' = [frame EXCEPT ![t] = IdleFrame]
    /\ UNCHANGED wordlist

PairSteps(t) ==
    \/ StepFindCrossingPoints(t)
    \/ StepScan0(t)
    \/ StepCharsAt(t)
    \/ StepScan1(t)
    \/ StepMakeLetterGroups(t)

\* one caller, crossing queries and single-word queries
Next ==
    \/ CallSolveSingleWord("t0", PlainPatterns)
    \/ CallSolveWordPair("t0", PairPatterns)
    \/ PairSteps("t0")
    \/ Return("t0")

Spec == Init /\ [][Next]_vars

\* one caller, single-word queries over every text
NextSingle ==
    \/ CallSolveSingleWord("t0", SinglePatterns)
    \/ Return("t0")

SpecSingle == InitSingle /\ [][NextSingle]_vars

\* two callers whose queries interleave
NextConc ==
    \E t \in Threads :
        \/ CallSolveSingleWord(t, ConcPatterns)
        \/ CallSolveWordPair(t, ConcPatterns)
        \/ PairSteps(t)
        \/ Return(t)

SpecConc == InitConc /\ [][NextConc]_vars

(***************************************************************************)
(* The reference reading of a pattern, entry by entry: what the properties *)
(* below compare the scans with.                                           *)
(***************************************************************************)
\* the entries of a word list, in order
RECURSIVE SplitLines(_)
SplitLines(text) ==
    LET k == Find(text, NL)
    IN IF k = -1 THEN <<text>>
       ELSE <<SubSeq(text, 1, k)>> \o SplitLines(SubSeq(text, k + 2, Len(text)))

\* an unknown ('.' or the crossing '+') stands for one word character; any
\* other pattern character stands for itself, whatever its case
Accepts(p, c) == IF p \in {".", "+"} THEN c \in WordChars ELSE Lower(p) = Lower(c)

Fits(pattern, entry) ==
    /\ Len(entry) = Len(pattern)
    /\ \A i \in 1..Len(pattern) : Accepts(pattern[i], entry[i])

Matching(text, pattern) ==
    LET Test(entry) == Fits(pattern, entry)
    IN SelectSeq(SplitLines(text), Test)

Range(seq) == {seq[i] : i \in 1..Len(seq)}

OnePlus(pattern) == Cardinality({i \in 1..Len(pattern) : pattern[i] = "+"}) = 1
HasPlus(pattern) == \E i \in 1..Len(pattern) : pattern[i] = "+"
\* the crossing: the place of the (first) '+'
PlusAt(pattern) ==
    CHOOSE i \in 1..Len(pattern) :
        pattern[i] = "+" /\ \A j \in 1..(i - 1) : pattern[j] # "+"

\* some entry fitting the pattern has L, in either case, at the crossing
SideHas(text, pattern, L) ==
    \E e \in Range(Matching(text, pattern)) : Lower(e[PlusAt(pattern)]) = L

\* the frame of the one caller of Spec and SpecSingle
Cur == frame["t0"]
SingleDone == Cur.pc = "done" /\ Cur.op = "single"
PairDone == Cur.pc = "done" /\ Cur.op = "pair"
PairReturned == PairDone /\ ~Cur.raised

(***************************************************************************)
(* C1: solve_single_word returns exactly the entries of the word list that *)
(* fit the pattern position by position, in word list order, none omitted, *)
(* an entry that occurs k times occurring k times.                         *)
(***************************************************************************)
C1_ExactSubsequence ==
    SingleDone => Cur.result = Matching(wordlist, Cur.pattern0)

\* two different entries are returned, in the order the word list has them
C1_Witness ==
    /\ SingleDone
    /\ Len(Cur.result) = 2
    /\ Cur.result[1] # Cur.result[2]
    /\ Len(Cur.pattern0) = 1

(***************************************************************************)
(* C2: the mapping solve_word_pair returns is the mapping computed without *)
(* narrowing: L is a key iff some entry fitting pattern 0 and some entry   *)
(* fitting pattern 1 (the '+' read as an unknown) have L, whatever its     *)
(* case, at the crossing; its value is the pair of all such entries, each  *)
(* in word list order.                                                     *)
(***************************************************************************)
ReferenceMapping(text, pattern0, pattern1) ==
    LET all0 == Matching(text, pattern0)
        all1 == Matching(text, pattern1)
        With0(L) == LET T(e) == Lower(e[PlusAt(pattern0)]) = L IN SelectSeq(all0, T)
        With1(L) == LET T(e) == Lower(e[PlusAt(pattern1)]) = L IN SelectSeq(all1, T)
        keys == {L \in {Lower(c) : c \in WordChars} :
                    With0(L) # <<>> /\ With1(L) # <<>>}
    IN [L \in keys |-> <<With0(L), With1(L)>>]

C2_NarrowingIsExact ==
    (PairReturned /\ OnePlus(Cur.pattern0) /\ OnePlus(Cur.pattern1))
        => Cur.groups = ReferenceMapping(wordlist, Cur.pattern0, Cur.pattern1)

\* the narrowed second scan left out an entry that fits pattern 1, and a
\* letter is still a key
C2_Witness ==
    /\ PairReturned /\ OnePlus(Cur.pattern0) /\ OnePlus(Cur.pattern1)
    /\ DOMAIN Cur.groups # {}
    /\ Len(Cur.words1) < Len(Matching(wordlist, Cur.pattern1))

(***************************************************************************)
(* C3: solve_word_pair raises ValueError exactly when pattern 0 or pattern *)
(* 1 has no '+', whatever the word list; when it raises nothing is scanned *)
(* and no mapping is returned.                                             *)
(***************************************************************************)
C3_RaisesIffPlusMissing ==
    PairDone =>
        /\ Cur.raised <=> (~HasPlus(Cur.pattern0) \/ ~HasPlus(Cur.pattern1))
        /\ Cur.raised => (Cur.groups = EmptyMapping /\ Cur.words0 = <<>>
                            /\ Cur.trace = <<"find">>)

\* only the second pattern lacks its '+', and the word list has an entry
\* that fits the first
C3_Witness ==
    /\ PairDone /\ Cur.raised
    /\ HasPlus(Cur.pattern0) /\ ~HasPlus(Cur.pattern1)
    /\ Matching(wordlist, Cur.pattern0) # <<>>

(***************************************************************************)
(* C4: in a returned mapping both word lists of every key are non-empty; a *)
(* candidate letter with entries on one side only is no key; and when no   *)
(* letter has entries on both sides the result is the empty mapping, not   *)
(* an error.                                                               *)
(***************************************************************************)
C4_BothSidesNonEmpty ==
    (PairDone /\ HasPlus(Cur.pattern0) /\ HasPlus(Cur.pattern1)) =>
        /\ ~Cur.raised
        /\ \A L \in DOMAIN Cur.groups :
                Cur.groups[L][1] # <<>> /\ Cur.groups[L][2] # <<>>
        /\ \A L \in Cur.candidate_chars :
                (~SideHas(wordlist, Cur.pattern0, L) \/ ~SideHas(wordlist, Cur.pattern1, L))
                    => L \notin DOMAIN Cur.groups
        /\ (\A L \in Cur.candidate_chars : ~SideHas(wordlist, Cur.pattern1, L))
                => Cur.groups = EmptyMapping

\* one candidate letter is a key and another, with no entry on side 1, is not
C4_Witness ==
    /\ PairReturned
    /\ DOMAIN Cur.groups # {}
    /\ \E L \in Cur.candidate_chars : L \notin DOMAIN Cur.groups

(***************************************************************************)
(* C5 as the specification words it: an entry returned by                  *)
(* solve_single_word has a letter or a digit wherever the pattern has '.', *)
(* a space wherever it has a space, a hyphen wherever it has a hyphen.     *)
(***************************************************************************)
C5_DotIsLetterOrDigit ==
    SingleDone =>
        \A k \in 1..Len(Cur.result) : \A i \in 1..Len(Cur.pattern0) :
            /\ Cur.pattern0[i] = "." => Cur.result[k][i] \in Letters \cup Digits
            /\ Cur.pattern0[i] = " " => Cur.result[k][i] = " "
            /\ Cur.pattern0[i] = "-" => Cur.result[k][i] = "-"

(***************************************************************************)
(* C5, amended: an entry returned by solve_single_word has a letter, a     *)
(* digit or an underscore, never a space or a hyphen, wherever the pattern *)
(* has '.', a space wherever it has a space, and a hyphen wherever it has  *)
(* a hyphen.                                                               *)
(***************************************************************************)
C5_DotIsWordChar ==
    SingleDone =>
        \A k \in 1..Len(Cur.result) :
            /\ Len(Cur.result[k]) = Len(Cur.pattern0)
            /\ \A i \in 1..Len(Cur.pattern0) :
                /\ Cur.pattern0[i] = "." =>
                      /\ Cur.result[k][i] \in WordChars
                      /\ Cur.result[k][i] \notin {" ", "-"}
                /\ Cur.pattern0[i] = " " => Cur.result[k][i] = " "
                /\ Cur.pattern0[i] = "-" => Cur.result[k][i] = "-"

\* an entry with a space or hyphen under the '.' is left out while another
\* entry is returned
C5_Witness ==
    /\ SingleDone
    /\ Cur.result # <<>>
    /\ \E e \in Range(SplitLines(wordlist)) :
        /\ Len(e) = Len(Cur.pattern0)
        /\ \E i \in 1..Len(e) : Cur.pattern0[i] = "." /\ e[i] \in {" ", "-"}
        /\ e \notin Range(Cur.result)

(***************************************************************************)
(* C6: every entry returned by solve_single_word is a whole entry of the   *)
(* word list and exactly as long as the pattern; no proper prefix, suffix  *)
(* or inner part of a longer entry is returned.                            *)
(***************************************************************************)
C6_WholeEntriesOfPatternLength ==
    SingleDone =>
        \A k \in 1..Len(Cur.result) :
            /\ Len(Cur.result[k]) = Len(Cur.pattern0)
            /\ Cur.result[k] \in Range(SplitLines(wordlist))

\* a longer entry holds a part that fits the pattern, and that part is not
\* returned
C6_Witness ==
    /\ SingleDone
    /\ Len(Cur.pattern0) >= 1
    /\ \E e \in Range(SplitLines(wordlist)) :
        /\ Len(e) > Len(Cur.pattern0)
        /\ \E i \in 1..(Len(e) - Len(Cur.pattern0) + 1) :
            LET part == SubSeq(e, i, i + Len(Cur.pattern0) - 1)
            IN Fits(Cur.pattern0, part) /\ part \notin Range(Cur.result)

(***************************************************************************)
(* C7: for a pattern of letters and '.', solve_single_word returns the     *)
(* same list for the pattern, its upper-case form and its lower-case form, *)
(* and each returned entry is spelt as the word list spells it.            *)
(***************************************************************************)
LettersAndDots(pattern) == \A i \in 1..Len(pattern) : pattern[i] \in Letters \cup {"."}

C7_CaseInsensitive ==
    (SingleDone /\ LettersAndDots(Cur.pattern0)) =>
        /\ Cur.result = SolveSingleWord(wordlist, UpperStr(Cur.pattern0))
        /\ Cur.result = SolveSingleWord(wordlist, LowerStr(Cur.pattern0))
        /\ \A k \in 1..Len(Cur.result) : Cur.result[k] \in Range(SplitLines(wordlist))

\* a lower-case pattern letter returned an upper-case entry
C7_Witness ==
    /\ SingleDone /\ LettersAndDots(Cur.pattern0)
    /\ \E k \in 1..Len(Cur.result) : \E i \in 1..Len(Cur.pattern0) :
        /\ Cur.pattern0[i] \in Letters
        /\ Cur.result[k][i] # Cur.pattern0[i]

(***************************************************************************)
(* C8: with one '+' in each pattern, if solve_word_pair(P0, P1) maps L to  *)
(* (A, B) then solve_word_pair(P1, P0) maps L to (B, A); the first list is *)
(* the first argument's, the second the second's.                          *)
(***************************************************************************)
C8_CrossingSymmetry ==
    (PairReturned /\ OnePlus(Cur.pattern0) /\ OnePlus(Cur.pattern1)) =>
        LET swapped == SolveWordPair(wordlist, Cur.pattern1, Cur.pattern0)
        IN \A L \in DOMAIN Cur.groups :
            /\ ~swapped.raised
            /\ L \in DOMAIN swapped.groups
            /\ swapped.groups[L] = <<Cur.groups[L][2], Cur.groups[L][1]>>
            /\ \A e \in Range(Cur.groups[L][1]) : Fits(Cur.pattern0, e)
            /\ \A e \in Range(Cur.groups[L][2]) : Fits(Cur.pattern1, e)

\* a key whose two lists differ, under patterns of different length
C8_Witness ==
    /\ PairReturned /\ OnePlus(Cur.pattern0) /\ OnePlus(Cur.pattern1)
    /\ Len(Cur.pattern0) # Len(Cur.pattern1)
    /\ \E L \in DOMAIN Cur.groups : Cur.groups[L][1] # Cur.groups[L][2]

(***************************************************************************)
(* C9: queries have no side effect: no step of any query, raising or not,  *)
(* changes the word list, and every finished query, whatever the other     *)
(* caller did meanwhile, has the result it has when run alone.             *)
(***************************************************************************)
ResultAsAlone(t) ==
    /\ (frame[t].pc = "done" /\ frame[t].op = "single")
        => frame[t].result = SolveSingleWord(wordlist, frame[t].pattern0)
    /\ (frame[t].pc = "done" /\ frame[t].op = "pair")
        => LET alone == SolveWordPair(wordlist, frame[t].pattern0, frame[t].pattern1)
           IN frame[t].raised = alone.raised /\ frame[t].groups = alone.groups

C9_NoSideEffect ==
    /\ [][wordlist' = wordlist]_vars
    /\ [](\A t \in Threads : ResultAsAlone(t))

\* one caller has its mapping while the other is between its two scans
C9_Witness ==
    /\ frame["t0"].pc = "done" /\ frame["t0"].op = "pair"
    /\ DOMAIN frame["t0"].groups # {}
    /\ frame["t1"].pc = "scan1"

(***************************************************************************)
(* C10: in solve_word_pair the '+' check comes first, then the scan for    *)
(* pattern 0, then the scan for pattern 1, which runs only after the first *)
(* scan and only if that found a word; if it found none the result is the  *)
(* empty mapping and pattern 1 is never scanned.                           *)
(***************************************************************************)
IsPrefix(s, t) == Len(s) <= Len(t) /\ s = SubSeq(t, 1, Len(s))

C10_OrderAndShortCircuit ==
    Cur.op = "pair" =>
        /\ IsPrefix(Cur.trace, <<"find", "scan0", "scan1">>)
        /\ "scan1" \in Range(Cur.trace) => Cur.words0 # <<>>
        /\ (PairReturned /\ Cur.words0 = <<>>)
            => (Cur.trace = <<"find", "scan0">> /\ Cur.groups = EmptyMapping)
        /\ (PairReturned /\ Cur.words0 # <<>>)
            => Cur.trace = <<"find", "scan0", "scan1">>

\* the first scan found nothing although the word list has an entry that
\* fits pattern 1
C10_Witness ==
    /\ PairReturned
    /\ Cur.words0 = <<>>
    /\ Matching(wordlist, Cur.pattern1) # <<>>

====
